---- MODULE Spec2Model ----
(***************************************************************************)
(* Model of watchtower's root command (cmd/root.go): the start-up path of  *)
(* Run, the single-slot update lock shared by the cron scheduler and the   *)
(* HTTP update endpoint, the update session runUpdatesWithNotifications,   *)
(* and the graceful shut-down of runUpgradesOnSchedule.                    *)
(*                                                                         *)
(* Processes: the main goroutine (Run), one goroutine per cron tick (the   *)
(* cron library starts every job run in a goroutine of its own, so ticks   *)
(* may overlap) and one goroutine per HTTP request.  The packages pkg/api  *)
(* and pkg/api/update are not part of the sources at hand: the listener    *)
(* and the update handler are modelled from the specification (section     *)
(* 4.6): a non-blocking take of the lock, a skipped metric when it fails.   *)
(***************************************************************************)
EXTENDS Integers, FiniteSets, Sequences, TLC

\* Number of goroutines the scheduler may have running at the same time.
MaxTicks == 2
\* Number of HTTP update requests that may be handled at the same time.
MaxHttp == 1
\* Longest duration given to formatDuration, in seconds.
MaxSeconds == 7325

Main == <<"main", 0>>
Ticks == {<<"tick", i>> : i \in 1..MaxTicks}
Https == {<<"http", i>> : i \in 1..MaxHttp}
Workers == Ticks \cup Https
Procs == {Main} \cup Workers

VARIABLES
  flags,          \* the command line flags read by PreRun and Run
  pc,             \* position of every goroutine
  ret,            \* where the main goroutine continues after writeStartupMessage
  exited,         \* the process has ended (os.Exit, log.Fatal)
  exitCode,       \* its exit code, meaningful once exited
  lockMade,       \* updateLock has been created
  lock,           \* number of tokens in the slot of updateLock (capacity 1)
  holds,          \* holds[p]: p has received the token and not sent it back
  res,            \* res[p]: result of actions.Update in p's current session
  pubs,           \* pubs[p]: calls of metrics.RegisterScan in p's current attempt
  kind,           \* kind[p]: what p's last RegisterScan published
  open,           \* goroutines with a StartNotification not yet followed by their SendNotification
  sched,          \* the cron scheduler: "none", "running", "stopped"
  sigReg,         \* signal.Notify has registered the interrupt channel
  interrupted,    \* a signal is waiting in the interrupt channel
  handlerReg,     \* the update handler is registered with the API
  apiStarted,     \* httpAPI.Start has been called
  apiBlock,       \* the argument httpAPI.Start was called with
  notifierClosed, \* notifier.Close has been called
  startupMsgs,    \* number of calls of writeStartupMessage
  sanityPassed,   \* actions.CheckForSanity returned nil
  multiPassed,    \* actions.CheckForMultipleWatchtowerInstances returned nil
  sessionEver,    \* runUpdatesWithNotifications has been entered at least once
  onceSessions,   \* number of calls of runUpdatesWithNotifications in line 170
  errEver,        \* actions.Update has returned an error at least once
  params,         \* the package variables PreRun sets for the sessions
  filter,         \* the filter Run builds from the names and the flags
  arg,            \* arg[p]: <<f>> when p called runUpdatesWithNotifications(f), else <<>>
  lateSkip,       \* an attempt was skipped while the shut-down path had the token
  updateParams,   \* updateParams[p]: <<r>> once p's session has built its UpdateParams r
  dur,            \* the argument of formatDuration, in seconds
  out,            \* the string formatDuration returned
  fmtDone         \* formatDuration has returned

vars == <<flags, pc, ret, exited, exitCode, lockMade, lock, holds, res, pubs,
          kind, open, sched, sigReg, interrupted, handlerReg, apiStarted, apiBlock,
          notifierClosed, startupMsgs, sanityPassed, multiPassed, sessionEver,
          onceSessions, errEver, params, filter, arg, updateParams, lateSkip,
          dur, out, fmtDone>>

fmtVars == <<dur, out, fmtDone>>

FlagNames == {"runOnce", "enableUpdateAPI", "unblockHTTPAPI", "healthCheck",
              "pidIsOne", "rollingRestart", "monitorOnly", "noStartupMessage"}

\* Images of the containers on the host.
Images == {"a", "b", "c"}

\* A filter is modelled by the set of the images whose containers it accepts.
FilterChoices == {{"a", "b"}}

\* Values of the package variables of the sessions that are not among the flags above.
ParamChoices ==
  {[cleanup |-> FALSE, noRestart |-> FALSE, timeout |-> 10, lifecycleHooks |-> FALSE,
    labelPrecedence |-> FALSE, noPull |-> FALSE],
   [cleanup |-> TRUE, noRestart |-> FALSE, timeout |-> 0, lifecycleHooks |-> TRUE,
    labelPrecedence |-> TRUE, noPull |-> TRUE]}

\* The values of the images parameter of a request; {} when it is absent.
ImageLists == {{}, {"a"}, {"c"}}

\* filters.FilterByImage(images, baseFilter): the base filter narrowed to the
\* containers of the given images; the base filter itself when no image is given.
FilterByImage(images, baseFilter) ==
  IF images = {} THEN baseFilter ELSE baseFilter \cap images

\* Positions inside runUpdatesWithNotifications.
SessionPcs == {"notify", "update", "send"}

InSession(p) == pc[p] \in SessionPcs

\* The state of the goroutines and of Run's variables when Run is entered.
StartState ==
  /\ flags \in [FlagNames -> BOOLEAN]
  /\ flags.pidIsOne => flags.healthCheck   \* os.Getpid() is read only under healthCheck
  /\ pc = [p \in Procs |-> IF p = Main THEN "healthCheck" ELSE "idle"]
  /\ ret = "none"
  /\ exited = FALSE
  /\ exitCode = 0
  /\ lockMade = FALSE
  /\ lock = 0
  /\ holds = [p \in Procs |-> FALSE]
  /\ res = [p \in Procs |-> "none"]
  /\ pubs = [p \in Procs |-> 0]
  /\ kind = [p \in Procs |-> "none"]
  /\ open = {}
  /\ sched = "none"
  /\ sigReg = FALSE
  /\ interrupted = FALSE
  /\ handlerReg = FALSE
  /\ apiStarted = FALSE
  /\ apiBlock = FALSE
  /\ notifierClosed = FALSE
  /\ startupMsgs = 0
  /\ sanityPassed = FALSE
  /\ multiPassed = FALSE
  /\ sessionEver = FALSE
  /\ onceSessions = 0
  /\ errEver = FALSE
  /\ params \in ParamChoices
  /\ filter \in FilterChoices
  /\ arg = [p \in Procs |-> <<>>]
  /\ updateParams = [p \in Procs |-> <<>>]
  /\ lateSkip = FALSE

\* formatDuration is checked on its own, under FmtSpec: here it is not called.
Init ==
  /\ StartState
  /\ dur = 0 /\ out = "" /\ fmtDone = FALSE


workerVars == <<holds, res, pubs, kind>>
lockVars == <<lockMade, lock>>
apiVars == <<handlerReg, apiStarted, apiBlock>>
sigVars == <<sigReg, interrupted>>
checkVars == <<sanityPassed, multiPassed>>
exitVars == <<exited, exitCode>>

Goto(p, l) == pc' = [pc EXCEPT ![p] = l]

\* os.Exit(code); log.Fatal exits with code 1.
Exit(code) == exited' = TRUE /\ exitCode' = code

(***************************************************************************)
(* Run, the main goroutine                                                 *)
(***************************************************************************)

\* if healthCheck { if os.Getpid() == 1 { log.Fatal } ; os.Exit(0) }
HealthCheck ==
  /\ ~exited /\ pc[Main] = "healthCheck"
  /\ IF flags.healthCheck
       THEN /\ Exit(IF flags.pidIsOne THEN 1 ELSE 0)
            /\ UNCHANGED pc
       ELSE /\ Goto(Main, "compat")
            /\ UNCHANGED exitVars
  /\ UNCHANGED <<flags, fmtVars, lateSkip, params, filter, arg, updateParams, errEver, onceSessions, ret, lockVars, workerVars, open, sched, sigVars, apiVars,
                 notifierClosed, startupMsgs, checkVars, sessionEver>>

\* The condition of the log.Fatal of line 159.
IncompatibleFlags == flags.rollingRestart /\ flags.monitorOnly

\* CompatCheck that warns and goes on, as PreRun does for monitorOnly && noPull.
CompatCheckWarnOnly ==
  /\ ~exited /\ pc[Main] = "compat"
  /\ Goto(Main, "sanity")
  /\ UNCHANGED <<flags, fmtVars, lateSkip, params, filter, arg, updateParams, errEver, onceSessions, ret, exitVars, lockVars, workerVars, open, sched, sigVars,
                 apiVars, notifierClosed, startupMsgs, checkVars, sessionEver>>

\* if rollingRestart && monitorOnly { log.Fatal(...) }
CompatCheck ==
  /\ ~exited /\ pc[Main] = "compat"
  /\ IF IncompatibleFlags
       THEN /\ Exit(1)
            /\ UNCHANGED pc
       ELSE /\ Goto(Main, "sanity")
            /\ UNCHANGED exitVars
  /\ UNCHANGED <<flags, fmtVars, lateSkip, params, filter, arg, updateParams, errEver, onceSessions, ret, lockVars, workerVars, open, sched, sigVars, apiVars,
                 notifierClosed, startupMsgs, checkVars, sessionEver>>

\* logNotifyExit: log.Error; notifier.Close(); os.Exit(1)
LogNotifyExit == notifierClosed' = TRUE /\ Exit(1)

\* awaitDockerClient(); if err := actions.CheckForSanity(...); err != nil { logNotifyExit(err) }
SanityCheck ==
  /\ ~exited /\ pc[Main] = "sanity"
  /\ \E ok \in BOOLEAN :
       IF ok
         THEN /\ sanityPassed' = TRUE
              /\ Goto(Main, "runOnce")
              /\ UNCHANGED <<exitVars, notifierClosed>>
         ELSE /\ LogNotifyExit
              /\ UNCHANGED <<pc, sanityPassed>>
  /\ UNCHANGED <<flags, fmtVars, lateSkip, params, filter, arg, updateParams, errEver, onceSessions, ret, lockVars, workerVars, open, sched, sigVars, apiVars,
                 startupMsgs, multiPassed, sessionEver>>

\* if runOnce { writeStartupMessage(...); ... } : the branch and the call of line 169
RunOnceBranch ==
  /\ ~exited /\ pc[Main] = "runOnce"
  /\ IF flags.runOnce
       THEN Goto(Main, "wsm") /\ ret' = "runSession"
       ELSE Goto(Main, "multi") /\ UNCHANGED ret
  /\ UNCHANGED <<flags, fmtVars, lateSkip, params, filter, arg, updateParams, errEver, onceSessions, exitVars, lockVars, workerVars, open, sched, sigVars, apiVars,
                 notifierClosed, startupMsgs, checkVars, sessionEver>>

\* writeStartupMessage up to notifier.StartNotification() (lines 265-276)
StartupMessageBegin ==
  /\ ~exited /\ pc[Main] = "wsm"
  /\ startupMsgs' = startupMsgs + 1
  /\ open' = IF flags.noStartupMessage THEN open ELSE open \cup {Main}
  /\ Goto(Main, "wsmSend")
  /\ UNCHANGED <<flags, fmtVars, lateSkip, params, filter, arg, updateParams, errEver, onceSessions, ret, exitVars, lockVars, workerVars, sched, sigVars, apiVars,
                 notifierClosed, checkVars, sessionEver>>

\* writeStartupMessage from the log lines to notifier.SendNotification(nil) and the return
StartupMessageEnd ==
  /\ ~exited /\ pc[Main] = "wsmSend"
  /\ open' = IF flags.noStartupMessage THEN open ELSE open \ {Main}
  /\ Goto(Main, ret)
  /\ ret' = "none"
  /\ UNCHANGED <<flags, fmtVars, lateSkip, params, filter, arg, updateParams, errEver, onceSessions, exitVars, lockVars, workerVars, sched, sigVars, apiVars,
                 notifierClosed, startupMsgs, checkVars, sessionEver>>

\* runUpdatesWithNotifications(filter) of line 170: the call
RunOnceSession ==
  /\ ~exited /\ pc[Main] = "runSession"
  /\ Goto(Main, "notify")
  /\ sessionEver' = TRUE
  /\ onceSessions' = onceSessions + 1
  /\ arg' = [arg EXCEPT ![Main] = <<filter>>]
  /\ UNCHANGED <<flags, fmtVars, lateSkip, params, filter, updateParams, errEver, ret, exitVars, lockVars, holds, res, pubs, kind, open, sched,
                 sigVars, apiVars, notifierClosed, startupMsgs, checkVars>>

\* RunOnceClose without os.Exit(0) and the return: Run goes on below the branch.
RunOnceCloseNoExit ==
  /\ ~exited /\ pc[Main] = "close"
  /\ notifierClosed' = TRUE
  /\ Goto(Main, "multi")
  /\ UNCHANGED <<flags, fmtVars, lateSkip, params, filter, arg, updateParams, errEver, onceSessions, ret, exitVars, lockVars, workerVars, open, sched,
                 sigVars, apiVars, startupMsgs, checkVars, sessionEver>>

\* notifier.Close(); os.Exit(0)
RunOnceClose ==
  /\ ~exited /\ pc[Main] = "close"
  /\ notifierClosed' = TRUE
  /\ Exit(0)
  /\ UNCHANGED <<flags, fmtVars, lateSkip, params, filter, arg, updateParams, errEver, onceSessions, pc, ret, lockVars, workerVars, open, sched, sigVars, apiVars,
                 startupMsgs, checkVars, sessionEver>>

\* MultiCheck that logs the error of the check and goes on.
MultiCheckIgnored ==
  /\ ~exited /\ pc[Main] = "multi"
  /\ \E ok \in BOOLEAN :
       /\ multiPassed' = ok
       /\ Goto(Main, "mkLock")
  /\ UNCHANGED <<flags, fmtVars, lateSkip, params, filter, arg, updateParams, errEver, onceSessions, ret, exitVars, notifierClosed, lockVars, workerVars, open, sched,
                 sigVars, apiVars, startupMsgs, sanityPassed, sessionEver>>

\* if err := actions.CheckForMultipleWatchtowerInstances(...); err != nil { logNotifyExit(err) }
MultiCheck ==
  /\ ~exited /\ pc[Main] = "multi"
  /\ \E ok \in BOOLEAN :
       IF ok
         THEN /\ multiPassed' = TRUE
              /\ Goto(Main, "mkLock")
              /\ UNCHANGED <<exitVars, notifierClosed>>
         ELSE /\ LogNotifyExit
              /\ UNCHANGED <<pc, multiPassed>>
  /\ UNCHANGED <<flags, fmtVars, lateSkip, params, filter, arg, updateParams, errEver, onceSessions, ret, lockVars, workerVars, open, sched, sigVars, apiVars,
                 startupMsgs, sanityPassed, sessionEver>>

\* updateLock := make(chan bool, 1); updateLock <- true
MakeLock ==
  /\ ~exited /\ pc[Main] = "mkLock"
  /\ lockMade' = TRUE
  /\ lock' = 1
  /\ Goto(Main, "registerAPI")
  /\ UNCHANGED <<flags, fmtVars, lateSkip, params, filter, arg, updateParams, errEver, onceSessions, ret, exitVars, workerVars, open, sched, sigVars, apiVars,
                 notifierClosed, startupMsgs, checkVars, sessionEver>>

\* httpAPI := api.New(apiToken); if enableUpdateAPI { register the handler;
\* if !unblockHTTPAPI { writeStartupMessage(...) } }; the metrics handler
RegisterAPI ==
  /\ ~exited /\ pc[Main] = "registerAPI"
  /\ handlerReg' = flags.enableUpdateAPI
  /\ IF flags.enableUpdateAPI /\ ~flags.unblockHTTPAPI
       THEN Goto(Main, "wsm") /\ ret' = "apiStart"
       ELSE Goto(Main, "apiStart") /\ UNCHANGED ret
  /\ UNCHANGED <<flags, fmtVars, lateSkip, params, filter, arg, updateParams, errEver, onceSessions, exitVars, lockVars, workerVars, open, sched, sigVars,
                 apiStarted, apiBlock, notifierClosed, startupMsgs, checkVars, sessionEver>>

\* StartBlockArg with the negation of unblockHTTPAPI lost.
StartBlockArgNegated == flags.enableUpdateAPI /\ flags.unblockHTTPAPI

\* The argument of httpAPI.Start in line 204.
StartBlockArg == flags.enableUpdateAPI /\ ~flags.unblockHTTPAPI

\* httpAPI.Start(enableUpdateAPI && !unblockHTTPAPI); an error is logged and Run goes on
ApiStart ==
  /\ ~exited /\ pc[Main] = "apiStart"
  /\ apiStarted' = TRUE
  /\ apiBlock' = StartBlockArg
  /\ Goto(Main, "addFunc")
  /\ UNCHANGED <<flags, fmtVars, lateSkip, params, filter, arg, updateParams, errEver, onceSessions, ret, exitVars, lockVars, workerVars, open, sched, sigVars,
                 handlerReg, notifierClosed, startupMsgs, checkVars, sessionEver>>

\* runUpgradesOnSchedule: cron.New(); scheduler.AddFunc(scheduleSpec, ...);
\* if err != nil { return err } and then log.Error(err); os.Exit(1) in Run;
\* otherwise the call of writeStartupMessage in line 345
AddFunc ==
  /\ ~exited /\ pc[Main] = "addFunc"
  /\ \E ok \in BOOLEAN :
       IF ok
         THEN /\ Goto(Main, "wsm")
              /\ ret' = "schedStart"
              /\ UNCHANGED exitVars
         ELSE /\ Exit(1)
              /\ UNCHANGED <<pc, ret>>
  /\ UNCHANGED <<flags, fmtVars, lateSkip, params, filter, arg, updateParams, errEver, onceSessions, lockVars, workerVars, open, sched, sigVars, apiVars,
                 notifierClosed, startupMsgs, checkVars, sessionEver>>

\* scheduler.Start()
SchedStart ==
  /\ ~exited /\ pc[Main] = "schedStart"
  /\ sched' = "running"
  /\ Goto(Main, "sigNotify")
  /\ UNCHANGED <<flags, fmtVars, lateSkip, params, filter, arg, updateParams, errEver, onceSessions, ret, exitVars, lockVars, workerVars, open, sigVars, apiVars,
                 notifierClosed, startupMsgs, checkVars, sessionEver>>

\* interrupt := make(chan os.Signal, 1); signal.Notify(interrupt, os.Interrupt / SIGTERM)
SigNotify ==
  /\ ~exited /\ pc[Main] = "sigNotify"
  /\ sigReg' = TRUE
  /\ Goto(Main, "awaitInterrupt")
  /\ UNCHANGED <<flags, fmtVars, lateSkip, params, filter, arg, updateParams, errEver, onceSessions, ret, exitVars, lockVars, workerVars, open, sched, interrupted,
                 apiVars, notifierClosed, startupMsgs, checkVars, sessionEver>>

\* The operating system delivers SIGINT or SIGTERM into the interrupt channel.
Signal ==
  /\ ~exited /\ sigReg /\ ~interrupted
  /\ interrupted' = TRUE
  /\ UNCHANGED <<flags, fmtVars, lateSkip, params, filter, arg, updateParams, errEver, onceSessions, pc, ret, exitVars, lockVars, workerVars, open, sched, sigReg,
                 apiVars, notifierClosed, startupMsgs, checkVars, sessionEver>>

\* <-interrupt
AwaitInterrupt ==
  /\ ~exited /\ pc[Main] = "awaitInterrupt"
  /\ interrupted
  /\ Goto(Main, "schedStop")
  /\ UNCHANGED <<flags, fmtVars, lateSkip, params, filter, arg, updateParams, errEver, onceSessions, ret, exitVars, lockVars, workerVars, open, sched, sigVars,
                 apiVars, notifierClosed, startupMsgs, checkVars, sessionEver>>

\* scheduler.Stop(); log.Info("Waiting for running update to be finished...")
SchedStop ==
  /\ ~exited /\ pc[Main] = "schedStop"
  /\ sched' = "stopped"
  /\ Goto(Main, "recvLock")
  /\ UNCHANGED <<flags, fmtVars, lateSkip, params, filter, arg, updateParams, errEver, onceSessions, ret, exitVars, lockVars, workerVars, open, sigVars, apiVars,
                 notifierClosed, startupMsgs, checkVars, sessionEver>>

\* RecvLock as a receive that does not wait: runUpgradesOnSchedule returns
\* whether or not the token was in the slot.
RecvLockNoWait ==
  /\ ~exited /\ pc[Main] \in {"recvLock", "parked"}
  /\ IF lock = 1
       THEN /\ lock' = 0
            /\ holds' = [holds EXCEPT ![Main] = TRUE]
       ELSE UNCHANGED <<lock, holds>>
  /\ Goto(Main, "returned")
  /\ UNCHANGED <<flags, fmtVars, lateSkip, params, filter, arg, updateParams, errEver, onceSessions, ret, exitVars, lockMade, res, pubs, kind, open, sched,
                 sigVars, apiVars, notifierClosed, startupMsgs, checkVars, sessionEver>>

\* RecvLock as a look at the slot: the token stays where it is.
RecvLockPeek ==
  /\ ~exited /\ pc[Main] \in {"recvLock", "parked"}
  /\ IF lock = 1
       THEN Goto(Main, "returned")
       ELSE Goto(Main, "parked")
  /\ UNCHANGED <<lock, holds>>
  /\ UNCHANGED <<flags, fmtVars, lateSkip, params, filter, arg, updateParams, errEver, onceSessions, ret, exitVars, lockMade, res, pubs, kind, open, sched,
                 sigVars, apiVars, notifierClosed, startupMsgs, checkVars, sessionEver>>

\* <-lock of line 357: the token is taken when the slot holds it, otherwise the
\* main goroutine parks in the channel's queue of receivers (and stays parked
\* until a sender hands it the value, see PutToken).
RecvLock ==
  /\ ~exited /\ pc[Main] \in {"recvLock", "parked"}
  /\ IF lock = 1
       THEN /\ lock' = 0
            /\ holds' = [holds EXCEPT ![Main] = TRUE]
            /\ Goto(Main, "returned")
       ELSE /\ Goto(Main, "parked")
            /\ UNCHANGED <<lock, holds>>
  /\ UNCHANGED <<flags, fmtVars, lateSkip, params, filter, arg, updateParams, errEver, onceSessions, ret, exitVars, lockMade, res, pubs, kind, open, sched,
                 sigVars, apiVars, notifierClosed, startupMsgs, checkVars, sessionEver>>

\* ShutdownExit that reports the graceful shut-down as a success.
ShutdownExitZero ==
  /\ ~exited /\ pc[Main] = "returned"
  /\ Exit(0)
  /\ UNCHANGED <<flags, fmtVars, lateSkip, params, filter, arg, updateParams, errEver, onceSessions, pc, ret, lockVars, workerVars, open, sched, sigVars,
                 apiVars, notifierClosed, startupMsgs, checkVars, sessionEver>>

\* return nil from runUpgradesOnSchedule; os.Exit(1) in Run
ShutdownExit ==
  /\ ~exited /\ pc[Main] = "returned"
  /\ Exit(1)
  /\ UNCHANGED <<flags, fmtVars, lateSkip, params, filter, arg, updateParams, errEver, onceSessions, pc, ret, lockVars, workerVars, open, sched, sigVars, apiVars,
                 notifierClosed, startupMsgs, checkVars, sessionEver>>

MainStep ==
  \/ HealthCheck
  \/ CompatCheck
  \/ SanityCheck
  \/ RunOnceBranch
  \/ StartupMessageBegin
  \/ StartupMessageEnd
  \/ RunOnceSession
  \/ RunOnceClose
  \/ MultiCheck
  \/ MakeLock
  \/ RegisterAPI
  \/ ApiStart
  \/ AddFunc
  \/ SchedStart
  \/ SigNotify
  \/ AwaitInterrupt
  \/ SchedStop
  \/ RecvLock
  \/ ShutdownExit


(***************************************************************************)
(* runUpdatesWithNotifications, run by whichever goroutine called it        *)
(***************************************************************************)

\* Where a goroutine continues when runUpdatesWithNotifications returns:
\* notifier.Close() in run-once mode, metrics.RegisterScan(metric) otherwise.
AfterSession(p) == IF p = Main THEN "close" ELSE "register"

\* updateParams := t.UpdateParams{Filter: filter, Cleanup: cleanup, ...}
UpdateParams(p) ==
  [Filter |-> arg[p][1], Cleanup |-> params.cleanup, NoRestart |-> params.noRestart,
   Timeout |-> params.timeout, MonitorOnly |-> flags.monitorOnly,
   LifecycleHooks |-> params.lifecycleHooks, RollingRestart |-> flags.rollingRestart,
   LabelPrecedence |-> params.labelPrecedence, NoPull |-> params.noPull]

\* notifier.StartNotification(); updateParams := ...
SessNotify(p) ==
  /\ ~exited /\ pc[p] = "notify"
  /\ open' = open \cup {p}
  /\ Goto(p, "update")
  /\ updateParams' = [updateParams EXCEPT ![p] = <<UpdateParams(p)>>]
  /\ UNCHANGED <<flags, fmtVars, lateSkip, params, filter, arg, errEver, onceSessions, ret, exitVars, lockVars, workerVars, sched, sigVars, apiVars,
                 notifierClosed, startupMsgs, checkVars, sessionEver>>

\* SessUpdate with the error treated as fatal (log.Fatal instead of log.Error).
SessUpdateFatal(p) ==
  /\ ~exited /\ pc[p] = "update"
  /\ \E r \in {"ok", "err"} :
       /\ res' = [res EXCEPT ![p] = r]
       /\ errEver' = (errEver \/ r = "err")
       /\ IF r = "err" THEN Exit(1) ELSE UNCHANGED exitVars
  /\ Goto(p, "send")
  /\ UNCHANGED <<flags, fmtVars, lateSkip, params, filter, arg, updateParams, onceSessions, ret, lockVars, holds, pubs, kind, open, sched,
                 sigVars, apiVars, notifierClosed, startupMsgs, checkVars, sessionEver>>

\* result, err := actions.Update(client, updateParams); if err != nil { log.Error(err) }
SessUpdate(p) ==
  /\ ~exited /\ pc[p] = "update"
  /\ \E r \in {"ok", "err"} :
       /\ res' = [res EXCEPT ![p] = r]
       /\ errEver' = (errEver \/ r = "err")
  /\ Goto(p, "send")
  /\ UNCHANGED <<flags, fmtVars, lateSkip, params, filter, arg, updateParams, onceSessions, ret, exitVars, lockVars, holds, pubs, kind, open, sched,
                 sigVars, apiVars, notifierClosed, startupMsgs, checkVars, sessionEver>>

\* notifier.SendNotification(result); metricResults := metrics.NewMetric(result); return
SessSend(p) ==
  /\ ~exited /\ pc[p] = "send"
  /\ open' = open \ {p}
  /\ Goto(p, AfterSession(p))
  /\ UNCHANGED <<flags, fmtVars, lateSkip, params, filter, arg, updateParams, errEver, onceSessions, ret, exitVars, lockVars, workerVars, sched, sigVars, apiVars,
                 notifierClosed, startupMsgs, checkVars, sessionEver>>

SessionStep(p) == SessNotify(p) \/ SessUpdate(p) \/ SessSend(p)

(***************************************************************************)
(* The update lock: a channel of capacity 1                                *)
(***************************************************************************)

\* TakeToken without the test of the slot: the session runs whether or not the
\* receive found a token.
TakeTokenUnguarded(p) ==
  /\ lock' = 0
  /\ holds' = [holds EXCEPT ![p] = TRUE]
  /\ sessionEver' = TRUE
  /\ Goto(p, "notify")
  /\ UNCHANGED <<pubs, kind>>

\* case v := <-lock: of a select with a default branch, and the call of
\* runUpdatesWithNotifications that follows it.
TakeToken(p) ==
  /\ lock = 1
  /\ lock' = 0
  /\ holds' = [holds EXCEPT ![p] = TRUE]
  /\ sessionEver' = TRUE
  /\ Goto(p, "notify")
  /\ UNCHANGED <<pubs, kind>>

\* SkipAttempt that only logs: the skipped attempt publishes nothing.
SkipAttemptSilent(p) ==
  /\ lock = 0
  /\ Goto(p, "after")
  /\ UNCHANGED <<lock, holds, sessionEver, pubs, kind>>

\* default: metrics.RegisterScan(nil); log.Debug("Skipped another update already running.")
SkipAttempt(p) ==
  /\ lock = 0
  /\ pubs' = [pubs EXCEPT ![p] = @ + 1]
  /\ kind' = [kind EXCEPT ![p] = "nil"]
  /\ Goto(p, "after")
  /\ UNCHANGED <<lock, holds, sessionEver>>

\* RegisterMetric that drops the metric the session returned.
RegisterMetricDropped(p) ==
  /\ Goto(p, "after")
  /\ UNCHANGED <<pubs, kind>>

\* metrics.RegisterScan(metric) after the session
RegisterMetric(p) ==
  /\ pubs' = [pubs EXCEPT ![p] = @ + 1]
  /\ kind' = [kind EXCEPT ![p] = "metric"]
  /\ Goto(p, "after")

\* AfterSelect with the send deferred outside the select: a skipped attempt
\* sends a token too.
AfterSelectAlwaysRelease(p) ==
  /\ Goto(p, "release")
  /\ UNCHANGED <<res, pubs, kind>>

\* The statements after the select: the function returns, and the deferred
\* send runs when the token was taken.
AfterSelect(p) ==
  IF holds[p]
    THEN /\ Goto(p, "release")
         /\ UNCHANGED <<res, pubs, kind>>
    ELSE /\ Goto(p, "idle")
         /\ res' = [res EXCEPT ![p] = "none"]
         /\ pubs' = [pubs EXCEPT ![p] = 0]
         /\ kind' = [kind EXCEPT ![p] = "none"]

\* PutToken written after the session instead of deferred, and skipped when
\* the session failed: the goroutine ends with the token.
PutTokenUnlessFailed(p) ==
  /\ lock = 0
  /\ IF res[p] = "err"
       THEN /\ pc' = [pc EXCEPT ![p] = "idle"]
            /\ UNCHANGED <<lock, holds>>
       ELSE /\ lock' = 1
            /\ holds' = [holds EXCEPT ![p] = FALSE]
            /\ pc' = [pc EXCEPT ![p] = "idle"]
  /\ res' = [res EXCEPT ![p] = "none"]
  /\ pubs' = [pubs EXCEPT ![p] = 0]
  /\ kind' = [kind EXCEPT ![p] = "none"]

\* PutToken without the hand-over to a parked receiver: the value always goes
\* into the slot, where any receiver may take it.
PutTokenToSlot(p) ==
  /\ lock = 0
  /\ lock' = 1
  /\ holds' = [holds EXCEPT ![p] = FALSE]
  /\ pc' = [pc EXCEPT ![p] = "idle"]
  /\ res' = [res EXCEPT ![p] = "none"]
  /\ pubs' = [pubs EXCEPT ![p] = 0]
  /\ kind' = [kind EXCEPT ![p] = "none"]

\* defer func() { lock <- v }(): the send waits while the slot is full; a
\* goroutine parked in <-lock (line 357) receives the value directly, otherwise
\* the value goes into the slot.  The goroutine ends.
PutToken(p) ==
  /\ lock = 0
  /\ IF pc[Main] = "parked"
       THEN /\ lock' = 0
            /\ holds' = [holds EXCEPT ![p] = FALSE, ![Main] = TRUE]
            /\ pc' = [pc EXCEPT ![p] = "idle", ![Main] = "returned"]
       ELSE /\ lock' = 1
            /\ holds' = [holds EXCEPT ![p] = FALSE]
            /\ pc' = [pc EXCEPT ![p] = "idle"]
  /\ res' = [res EXCEPT ![p] = "none"]
  /\ pubs' = [pubs EXCEPT ![p] = 0]
  /\ kind' = [kind EXCEPT ![p] = "none"]

(***************************************************************************)
(* The function the scheduler runs on every tick (lines 323-339)           *)
(***************************************************************************)

\* The scheduler starts a goroutine for a tick; only a running scheduler does.
TickFire(a) ==
  /\ ~exited /\ pc[a] = "idle"
  /\ sched = "running"
  /\ Goto(a, "select")
  /\ UNCHANGED <<flags, fmtVars, lateSkip, params, filter, arg, updateParams, errEver, onceSessions, ret, exitVars, lockVars, workerVars, open, sched, sigVars,
                 apiVars, notifierClosed, startupMsgs, checkVars, sessionEver>>

\* select { case v := <-lock: ... default: metrics.RegisterScan(nil) ... }
TickSelect(a) ==
  /\ ~exited /\ pc[a] = "select"
  /\ \/ TakeToken(a) /\ arg' = [arg EXCEPT ![a] = <<filter>>] /\ UNCHANGED lateSkip
     \/ SkipAttempt(a) /\ lateSkip' = (lateSkip \/ holds[Main]) /\ UNCHANGED arg
  /\ UNCHANGED <<flags, fmtVars, params, filter, updateParams, errEver, onceSessions, ret, exitVars, lockMade, res, open, sched, sigVars, apiVars,
                 notifierClosed, startupMsgs, checkVars>>

\* metric := runUpdatesWithNotifications(filter) has returned; metrics.RegisterScan(metric)
TickRegister(a) ==
  /\ ~exited /\ pc[a] = "register"
  /\ RegisterMetric(a)
  /\ UNCHANGED <<flags, fmtVars, lateSkip, params, filter, arg, updateParams, errEver, onceSessions, ret, exitVars, lockVars, holds, res, open, sched, sigVars,
                 apiVars, notifierClosed, startupMsgs, checkVars, sessionEver>>

\* nextRuns := scheduler.Entries(); the log of the next run; the function returns
TickAfter(a) ==
  /\ ~exited /\ pc[a] = "after"
  /\ AfterSelect(a)
  /\ UNCHANGED <<flags, fmtVars, lateSkip, params, filter, arg, updateParams, errEver, onceSessions, ret, exitVars, lockVars, holds, open, sched, sigVars,
                 apiVars, notifierClosed, startupMsgs, checkVars, sessionEver>>

\* the deferred lock <- v
TickRelease(a) ==
  /\ ~exited /\ pc[a] = "release"
  /\ PutToken(a)
  /\ arg' = [arg EXCEPT ![a] = <<>>]
  /\ updateParams' = [updateParams EXCEPT ![a] = <<>>]
  /\ UNCHANGED <<flags, fmtVars, lateSkip, params, filter, errEver, onceSessions, ret, exitVars, lockMade, open, sched,
                 sigVars, apiVars, notifierClosed, startupMsgs, checkVars, sessionEver>>

TickStep(a) ==
  \/ TickSelect(a)
  \/ (pc[a] \in SessionPcs /\ SessionStep(a))
  \/ TickRegister(a)
  \/ TickAfter(a)
  \/ TickRelease(a)

(***************************************************************************)
(* The HTTP update endpoint                                                *)
(***************************************************************************)

\* HandlerCall that assigns the narrowed filter to the variable the scheduled
\* sessions read.
HandlerCallNarrowsShared(a, images) ==
  /\ filter' = FilterByImage(images, filter)
  /\ arg' = [arg EXCEPT ![a] = <<filter'>>]

\* runUpdatesWithNotifications(filters.FilterByImage(images, filter)): the call
HandlerCall(a, images) ==
  /\ arg' = [arg EXCEPT ![a] = <<FilterByImage(images, filter)>>]
  /\ UNCHANGED filter

\* Whether the listener takes update requests: when Start was called with
\* block = true, not before the scheduler has started.
ListenerAccepts ==
  /\ apiStarted /\ handlerReg
  /\ (apiBlock => sched # "none")

\* A request for /v1/update arrives and its handler goroutine starts.
HttpRequest(a) ==
  /\ ~exited /\ pc[a] = "idle"
  /\ ListenerAccepts
  /\ Goto(a, "select")
  /\ UNCHANGED <<flags, fmtVars, lateSkip, params, filter, arg, updateParams, errEver, onceSessions, ret, exitVars, lockVars, workerVars, open, sched, sigVars,
                 apiVars, notifierClosed, startupMsgs, checkVars, sessionEver>>

\* The handler's non-blocking take of the lock; a failed take is a skipped
\* attempt, recorded as a skipped metric.
HttpSelect(a) ==
  /\ ~exited /\ pc[a] = "select"
  /\ \/ TakeToken(a) /\ (\E images \in ImageLists : HandlerCall(a, images)) /\ UNCHANGED lateSkip
     \/ SkipAttempt(a) /\ lateSkip' = (lateSkip \/ holds[Main]) /\ UNCHANGED <<arg, filter>>
  /\ UNCHANGED <<flags, fmtVars, params, updateParams, errEver, onceSessions, ret, exitVars, lockMade, res, open, sched, sigVars, apiVars,
                 notifierClosed, startupMsgs, checkVars>>

\* func(images []string) { metric := runUpdatesWithNotifications(...); metrics.RegisterScan(metric) }
HttpRegister(a) ==
  /\ ~exited /\ pc[a] = "register"
  /\ RegisterMetric(a)
  /\ UNCHANGED <<flags, fmtVars, lateSkip, params, filter, arg, updateParams, errEver, onceSessions, ret, exitVars, lockVars, holds, res, open, sched, sigVars,
                 apiVars, notifierClosed, startupMsgs, checkVars, sessionEver>>

\* The handler writes its response and returns.
HttpAfter(a) ==
  /\ ~exited /\ pc[a] = "after"
  /\ AfterSelect(a)
  /\ UNCHANGED <<flags, fmtVars, lateSkip, params, filter, arg, updateParams, errEver, onceSessions, ret, exitVars, lockVars, holds, open, sched, sigVars,
                 apiVars, notifierClosed, startupMsgs, checkVars, sessionEver>>

\* The handler gives the token back.
HttpRelease(a) ==
  /\ ~exited /\ pc[a] = "release"
  /\ PutToken(a)
  /\ arg' = [arg EXCEPT ![a] = <<>>]
  /\ updateParams' = [updateParams EXCEPT ![a] = <<>>]
  /\ UNCHANGED <<flags, fmtVars, lateSkip, params, filter, errEver, onceSessions, ret, exitVars, lockMade, open, sched,
                 sigVars, apiVars, notifierClosed, startupMsgs, checkVars, sessionEver>>

HttpStep(a) ==
  \/ HttpSelect(a)
  \/ (pc[a] \in SessionPcs /\ SessionStep(a))
  \/ HttpRegister(a)
  \/ HttpAfter(a)
  \/ HttpRelease(a)

(***************************************************************************)
(* formatDuration (lines 226-263)                                          *)
(***************************************************************************)

\* strconv.FormatInt(n, 10) for n >= 0
RECURSIVE FormatInt(_)
FormatInt(n) ==
  LET digit == CASE n % 10 = 0 -> "0" [] n % 10 = 1 -> "1" [] n % 10 = 2 -> "2"
                 [] n % 10 = 3 -> "3" [] n % 10 = 4 -> "4" [] n % 10 = 5 -> "5"
                 [] n % 10 = 6 -> "6" [] n % 10 = 7 -> "7" [] n % 10 = 8 -> "8"
                 [] OTHER -> "9"
  IN IF n < 10 THEN digit ELSE FormatInt(n \div 10) \o digit

\* formatDuration with the first separator written only before minutes.
formatDurationSepBeforeMinutes(d) ==
  LET hours == d \div 3600
      minutes == (d \div 60) % 60
      seconds == d % 60
      sb1 == IF hours = 1 THEN "1 hour"
             ELSE IF hours # 0 THEN FormatInt(hours) \o " hours" ELSE ""
      sb2 == IF hours # 0 /\ minutes # 0 THEN sb1 \o ", " ELSE sb1
      sb3 == IF minutes = 1 THEN sb2 \o "1 minute"
             ELSE IF minutes # 0 THEN sb2 \o FormatInt(minutes) \o " minutes" ELSE sb2
      sb4 == IF minutes # 0 /\ seconds # 0 THEN sb3 \o ", " ELSE sb3
  IN IF seconds = 1 THEN sb4 \o "1 second"
     ELSE IF seconds # 0 \/ (hours = 0 /\ minutes = 0)
            THEN sb4 \o FormatInt(seconds) \o " seconds" ELSE sb4

\* formatDuration(d) for d a whole number of seconds, d >= 0: int64(d.Hours()),
\* int64(math.Mod(d.Minutes(), 60)) and int64(math.Mod(d.Seconds(), 60)) are
\* the integer quotients and remainders; sb1..sb4 are the builder after each
\* statement.
formatDuration(d) ==
  LET hours == d \div 3600
      minutes == (d \div 60) % 60
      seconds == d % 60
      sb1 == IF hours = 1 THEN "1 hour"
             ELSE IF hours # 0 THEN FormatInt(hours) \o " hours" ELSE ""
      sb2 == IF hours # 0 /\ (seconds # 0 \/ minutes # 0) THEN sb1 \o ", " ELSE sb1
      sb3 == IF minutes = 1 THEN sb2 \o "1 minute"
             ELSE IF minutes # 0 THEN sb2 \o FormatInt(minutes) \o " minutes" ELSE sb2
      sb4 == IF minutes # 0 /\ seconds # 0 THEN sb3 \o ", " ELSE sb3
  IN IF seconds = 1 THEN sb4 \o "1 second"
     ELSE IF seconds # 0 \/ (hours = 0 /\ minutes = 0)
            THEN sb4 \o FormatInt(seconds) \o " seconds" ELSE sb4

\* until := formatDuration(time.Until(sched))
FormatDuration ==
  /\ ~fmtDone
  /\ out' = formatDuration(dur)
  /\ fmtDone' = TRUE
  /\ UNCHANGED <<flags, pc, ret, exited, exitCode, lockMade, lock, holds, res, pubs,
                 kind, open, sched, sigReg, interrupted, handlerReg, apiStarted,
                 apiBlock, notifierClosed, startupMsgs, sanityPassed, multiPassed,
                 sessionEver, onceSessions, errEver, params, filter, arg,
                 updateParams, lateSkip, dur>>

\* The durations formatDuration is checked on.
FmtInit ==
  /\ StartState
  /\ \A n \in FlagNames : ~flags[n]
  /\ ~params.cleanup
  /\ dur \in 0..MaxSeconds /\ out = "" /\ fmtDone = FALSE

FmtNext == FormatDuration

FmtSpec == FmtInit /\ [][FmtNext]_vars

(***************************************************************************)
(* The specifications                                                      *)
(***************************************************************************)

Next ==
  \/ MainStep
  \/ (pc[Main] \in SessionPcs /\ SessionStep(Main))
  \/ Signal
  \/ \E a \in Ticks : TickFire(a) \/ TickStep(a)
  \/ \E a \in Https : HttpRequest(a) \/ HttpStep(a)

Spec == Init /\ [][Next]_vars

\* The start states of scheduled and run-once operation with the flags that do
\* not bear on locking and shut-down at their defaults.
FairInit ==
  /\ Init
  /\ ~flags.healthCheck /\ ~flags.rollingRestart /\ ~flags.monitorOnly
  /\ ~flags.noStartupMessage
  /\ ~params.cleanup

\* Every goroutine that can take a step eventually takes one: the Go scheduler
\* starves no runnable goroutine.  Ticks, requests and signals arrive or not.
FairSpec ==
  /\ FairInit /\ [][Next]_vars
  /\ WF_vars(MainStep \/ (pc[Main] \in SessionPcs /\ SessionStep(Main)))
  /\ \A a \in Ticks : WF_vars(TickStep(a))
  /\ \A a \in Https : WF_vars(HttpStep(a))

TypeOK ==
  /\ lock \in {0, 1}
  /\ pubs \in [Procs -> 0..2]
  /\ open \subseteq Procs
  /\ startupMsgs \in 0..3
  /\ filter \subseteq Images /\ params \in ParamChoices


(***************************************************************************)
(* Properties                                                              *)
(***************************************************************************)

\* Tokens of the update lock: in the slot, or received and not yet sent back.
TokenCount == lock + Cardinality({p \in Procs : holds[p]})

SessionsRunning == {p \in Procs : InSession(p)}

\* C1: in every reachable state at most one goroutine is inside
\* runUpdatesWithNotifications, whatever the interleaving of ticks and triggers.
C1_OneSession == Cardinality(SessionsRunning) <= 1

\* A tick runs a session while a second tick and an HTTP trigger have been skipped.
C1_Witness ==
  \E a \in Ticks, b \in Ticks, h \in Https :
    /\ a # b
    /\ InSession(a)
    /\ pc[b] = "after" /\ pc[h] = "after"

\* C2 as stated: at most one token, and every goroutine in a session holds it,
\* the main goroutine's run-once session included.
C2_AsStated ==
  /\ TokenCount <= 1
  /\ \A p \in Procs : InSession(p) => holds[p]

\* C2 (amended): at most one token exists, every scheduler tick and HTTP trigger
\* that is in a session holds it, and the run-once session runs without a token:
\* the lock is not even created on that path.
C2_TokenHeldByWorker ==
  /\ TokenCount <= 1
  /\ \A w \in Workers : InSession(w) => (holds[w] /\ lock = 0)
  /\ InSession(Main) => (~lockMade /\ ~holds[Main] /\ TokenCount = 0)

\* An HTTP-triggered session holds the only token.
C2_Witness ==
  \E h \in Https : pc[h] = "update" /\ holds[h] /\ TokenCount = 1


\* The select statement of worker w (tick or HTTP handler).
WorkerSelect(w) == IF w \in Ticks THEN TickSelect(w) ELSE HttpSelect(w)

\* C3: an attempt that finds the slot empty never waits for the lock: its select
\* can always be taken, and taking it with an empty slot starts no session,
\* leaves the lock and its holder as they are, and records one null metric.
C3_SkipNeverWaits ==
  /\ [](\A w \in Workers : (~exited /\ pc[w] = "select") => ENABLED WorkerSelect(w))
  /\ [][\A w \in Workers :
          (pc[w] = "select" /\ lock = 0 /\ pc'[w] # "select")
            => /\ pc'[w] = "after"
               /\ lock' = lock /\ holds' = holds
               /\ SessionsRunning' = SessionsRunning
               /\ pubs'[w] = 1 /\ kind'[w] = "nil"]_vars

\* An HTTP trigger has skipped, with its null metric recorded, while a tick's
\* session holds the lock.
C3_Witness ==
  \E a \in Ticks, h \in Https :
    /\ InSession(a) /\ holds[a]
    /\ pc[h] = "after" /\ ~holds[h] /\ kind[h] = "nil" /\ pubs[h] = 1

PublishedOnce(w) ==
  /\ pc[w] \in {"after", "release"} =>
       (pubs[w] = 1 /\ kind[w] = IF holds[w] THEN "metric" ELSE "nil")
  /\ pc[w] \in {"idle", "select", "notify", "update", "send", "register"} =>
       (pubs[w] = 0 /\ kind[w] = "none")

\* C5 as stated: every attempt has published exactly one metric when it is over,
\* the run-once session like the attempts of ticks and triggers.
C5_AsStated ==
  /\ \A w \in Workers : PublishedOnce(w)
  /\ pc[Main] = "close" => pubs[Main] = 1

\* C5 (amended): every attempt of a scheduler tick or an HTTP trigger publishes
\* exactly one metric, the session's metric when it ran and a null metric when
\* it was skipped; the run-once session publishes no metric.
C5_MetricOncePerAttempt ==
  /\ \A w \in Workers : PublishedOnce(w)
  /\ pubs[Main] = 0 /\ kind[Main] = "none"

\* A tick has registered the metric of its session and an HTTP trigger its
\* null metric.
C5_Witness ==
  \E a \in Ticks, h \in Https :
    /\ pc[a] = "after" /\ holds[a] /\ kind[a] = "metric" /\ pubs[a] = 1
    /\ pc[h] = "after" /\ kind[h] = "nil"


\* C6 as stated: the process never exits while a session is in flight.
C6_AsStated == exited => \A p \in Procs : ~InSession(p)

\* C6 (amended): on the shut-down path runUpgradesOnSchedule returns, and the
\* process exits, only with the token in the main goroutine's hands: no tick and
\* no HTTP trigger is in a session or holds the token then, so no session is cut
\* short by that exit, and while a session is in flight the main goroutine
\* waits.  The exit after a rejected schedule does not wait for a session that
\* an HTTP trigger has started.
C6_ShutdownDrains ==
  /\ pc[Main] = "returned" =>
       /\ holds[Main] /\ lock = 0
       /\ \A w \in Workers : ~InSession(w) /\ ~holds[w] /\ pc[w] \notin {"register", "release"}
  /\ (exited /\ sched = "stopped") => pc[Main] = "returned"
  /\ pc[Main] = "parked" => (~exited /\ \E w \in Workers : holds[w])

\* After the signal the main goroutine waits in <-lock for a session in flight.
C6_Witness ==
  /\ pc[Main] = "parked" /\ sched = "stopped"
  /\ \E w \in Workers : pc[w] = "update"

\* C7: once a signal has been received the process exits, given that every
\* goroutine that can run does run; HTTP triggers that keep taking the lock do
\* not keep the main goroutine from getting it.
C7_ShutdownTerminates == interrupted ~> exited

\* The process has exited on the shut-down path with the update API serving.
C7_Witness ==
  /\ exited /\ pc[Main] = "returned" /\ exitCode = 1
  /\ apiStarted /\ handlerReg

C9_AsStated == sessionEver => multiPassed

\* C9 (amended): outside run-once mode no session starts before the check for
\* other instances has passed, and a failed check ends the process with code 1
\* and no session; in run-once mode the session runs without that check, which
\* comes after the run-once branch.
C9_CheckBeforeSession ==
  /\ (sessionEver /\ ~flags.runOnce) => multiPassed
  /\ (\E w \in Workers : pc[w] # "idle") => multiPassed
  /\ (exited /\ pc[Main] = "multi") => (exitCode = 1 /\ ~sessionEver /\ notifierClosed)
  /\ flags.runOnce => ~multiPassed

\* A tick's session runs, the check having passed.
C9_Witness ==
  /\ multiPassed /\ ~flags.runOnce
  /\ \E a \in Ticks : pc[a] = "notify"

\* C10 as stated: with rolling-restart and monitor-only both set, no session
\* runs, neither scheduler nor listener starts, and the exit code is not 0.
C10_AsStated ==
  (flags.rollingRestart /\ flags.monitorOnly) =>
    /\ ~sessionEver /\ sched = "none" /\ ~apiStarted
    /\ ~(exited /\ exitCode = 0)

\* C10 (amended): with rolling-restart and monitor-only both set, no session
\* runs and neither scheduler nor listener starts; the process ends with code 1,
\* except that with the health-check flag set as well, on a process that is not
\* PID 1, it ends with code 0 before the two flags are looked at.
C10_IncompatibleFlagsFatal ==
  (flags.rollingRestart /\ flags.monitorOnly) =>
    /\ ~sessionEver /\ sched = "none" /\ ~apiStarted /\ ~lockMade
    /\ pc[Main] \in {"healthCheck", "compat"}
    /\ exited => (exitCode = IF flags.healthCheck /\ ~flags.pidIsOne THEN 0 ELSE 1)

\* Start-up was rejected for the two flags.
C10_Witness ==
  /\ flags.rollingRestart /\ flags.monitorOnly /\ ~flags.healthCheck
  /\ exited /\ exitCode = 1 /\ pc[Main] = "compat"


\* The run-once branch of Run has been entered (line 168 found runOnce set).
OnRunOncePath ==
  /\ flags.runOnce
  /\ pc[Main] \in {"wsm", "wsmSend", "runSession", "notify", "update", "send", "close"}

\* C11: once Run has entered its run-once branch, which it does only after the
\* sanity check passed, exactly one session runs: none before the start-up
\* message is out, one from then on; the scheduler and the HTTP listener are
\* never started, no tick or trigger ever runs, and the process exits, with
\* code 0, only after that session and after notifier.Close().
C11_RunOnceOneSession ==
  /\ flags.runOnce => (sched = "none" /\ ~apiStarted /\ ~lockMade /\ onceSessions <= 1
                        /\ \A w \in Workers : pc[w] = "idle")
  /\ OnRunOncePath =>
       /\ sanityPassed
       /\ onceSessions = (IF pc[Main] \in {"wsm", "wsmSend", "runSession"} THEN 0 ELSE 1)
       /\ exited => (pc[Main] = "close" /\ notifierClosed /\ exitCode = 0
                      /\ res[Main] # "none" /\ Main \notin open)
  /\ (flags.runOnce /\ sanityPassed /\ exited) => pc[Main] = "close"

\* The run-once process has exited after its session.
C11_Witness ==
  /\ flags.runOnce /\ exited /\ pc[Main] = "close"
  /\ onceSessions = 1 /\ notifierClosed


\* The process ended at the end of the run-once branch (os.Exit(0) of line 172).
RunOnceCompleted == exited /\ pc[Main] = "close"

\* The process ended in the health-check branch on a process that is not PID 1.
HealthCheckPassed == exited /\ pc[Main] = "healthCheck" /\ ~flags.pidIsOne

\* C12: when the process has ended, its exit code is 0 if it ended at the end of
\* the run-once branch or with a passed health check, and 1 in every other
\* case: the health-check flag on PID 1, the incompatible flags, a failed sanity
\* check, a failed check for other instances, a rejected schedule, and the
\* return of runUpgradesOnSchedule after the shut-down.
C12_ExitCodes ==
  exited =>
    /\ exitCode \in {0, 1}
    /\ exitCode = 0 <=> (RunOnceCompleted \/ HealthCheckPassed)
    /\ pc[Main] \in {"healthCheck", "compat", "sanity", "close", "multi", "addFunc", "returned"}
    /\ (pc[Main] = "healthCheck" /\ flags.pidIsOne) => exitCode = 1
    /\ pc[Main] \in {"compat", "sanity", "multi", "addFunc", "returned"} => exitCode = 1

\* The process has ended with code 1 on a schedule the scheduler rejected.
C12_Witness ==
  /\ exited /\ exitCode = 1 /\ pc[Main] = "addFunc"
  /\ apiStarted /\ sched = "none"


\* What holds of a worker whose session got an error from actions.Update.
FailedSessionGoesOn(w) ==
  /\ pc[w] \in {"send", "register", "after", "release"}
  /\ holds[w]
  /\ pc[w] = "send" => (w \in open /\ (~exited => ENABLED SessSend(w)))
  /\ pc[w] \in {"register", "after", "release"} => w \notin open
  /\ pc[w] \in {"after", "release"} => (pubs[w] = 1 /\ kind[w] = "metric")
  /\ (~exited /\ pc[w] = "release") => ENABLED PutToken(w)

\* C13: an error of actions.Update does not end the process: the step that gets
\* it leaves the process running and goes on to SendNotification, which is
\* called once; the metric of the session is registered, the token is sent
\* back, and the lock is then free for the next tick's session.
C13_UpdateErrorNotFatal ==
  /\ [](\A w \in Workers : res[w] = "err" => FailedSessionGoesOn(w))
  /\ [][\A p \in Procs :
          (pc[p] = "update" /\ pc'[p] # "update")
            => (exited' = exited /\ pc'[p] = "send" /\ res'[p] \in {"ok", "err"})]_vars
  /\ [][\A w \in Workers :
          (res[w] = "err" /\ pc'[w] = "idle")
            => (~holds'[w] /\ (lock' = 1 \/ holds'[Main]))]_vars

\* After a session that failed, a tick runs a new session.
C13_Witness ==
  /\ errEver /\ ~exited
  /\ \A w \in Workers : res[w] # "err"
  /\ \E a \in Ticks : pc[a] = "notify" /\ holds[a]


\* C14: the StartNotification / SendNotification brackets on the shared
\* notifier are serialized: at most one bracket is open in any state, the
\* bracket of the startup message counted with those of the sessions.
C14_AsStated ==
  Cardinality(open) <= 1


\* The UpdateParams of p's session carry the values PreRun has set.
StartupParamsUsed(p) ==
  LET u == updateParams[p][1] IN
    /\ u.Filter = arg[p][1]
    /\ u.Cleanup = params.cleanup /\ u.NoRestart = params.noRestart
    /\ u.Timeout = params.timeout /\ u.MonitorOnly = flags.monitorOnly
    /\ u.LifecycleHooks = params.lifecycleHooks /\ u.RollingRestart = flags.rollingRestart
    /\ u.LabelPrecedence = params.labelPrecedence /\ u.NoPull = params.noPull

\* C15: every session runs with the parameter values fixed at start-up, which
\* no step changes; the sessions of run-once and of the ticks get the filter
\* built at start-up, an HTTP-triggered session gets that filter narrowed by
\* the images of its request, and the narrowing leaves the start-up filter
\* as it was.
C15_SessionParamsFixed ==
  /\ [](\A p \in Procs :
          /\ pc[p] \in {"update", "send"} => (arg[p] # <<>> /\ updateParams[p] # <<>>)
          /\ updateParams[p] # <<>> => StartupParamsUsed(p)
          /\ (arg[p] # <<>> /\ p \notin Https) => arg[p][1] = filter
          /\ (arg[p] # <<>> /\ p \in Https) =>
               /\ arg[p][1] \subseteq filter
               /\ \E images \in ImageLists : arg[p][1] = FilterByImage(images, filter))
  /\ [][params' = params /\ filter' = filter /\ flags' = flags]_vars

\* An HTTP-triggered session runs actions.Update with a filter narrower than
\* the one of the start-up, and with the other values of the start-up.
C15_Witness ==
  \E h \in Https :
    /\ pc[h] = "update" /\ updateParams[h] # <<>>
    /\ updateParams[h][1].Filter = {"a"} /\ filter = {"a", "b"}
    /\ updateParams[h][1].Timeout = params.timeout


\* C16: once the shut-down path has the token it keeps it: the slot stays
\* empty, no session is running or starts, and every tick already launched
\* and every trigger that then attempts the lock skips, publishing nil.
C16_ShutdownKeepsToken ==
  /\ [](pc[Main] = "returned" => holds[Main])
  /\ [](holds[Main] =>
          /\ pc[Main] = "returned" /\ lock = 0 /\ sched = "stopped"
          /\ SessionsRunning = {}
          /\ \A w \in Workers : ~holds[w] /\ pc[w] \in {"idle", "select", "after"})
  /\ [][holds[Main] =>
          /\ holds'[Main] /\ lock' = 0
          /\ \A w \in Workers :
               (pc[w] = "select" /\ pc'[w] # "select")
                 => (pc'[w] = "after" /\ kind'[w] = "nil" /\ ~holds'[w])]_vars

\* A tick launched before the scheduler stopped, or a trigger, has skipped
\* after the shut-down path took the token, and another attempt is under way.
C16_Witness ==
  /\ holds[Main] /\ ~exited /\ lateSkip
  /\ \E a \in Ticks : pc[a] = "after" /\ kind[a] = "nil"
  /\ \E h \in Https : pc[h] = "select"


\* The process has reached a running state: the run-once session, the API
\* started for triggers alone, or the scheduler.
RunningStateReached ==
  onceSessions > 0 \/ (apiStarted /\ apiBlock) \/ sched # "none"

\* C17: writeStartupMessage is called at most once in a run of the process,
\* and exactly once on every path that reaches a running state, the path
\* where the update API is enabled without periodic polls and httpAPI.Start
\* returns included.
C17_AsStated ==
  /\ startupMsgs <= 1
  /\ RunningStateReached => startupMsgs = 1


\* A component of a duration: nothing when zero, else its count and unit.
Component(n, unit) ==
  IF n = 0 THEN <<>>
  ELSE <<ToString(n) \o " " \o unit \o (IF n = 1 THEN "" ELSE "s")>>

\* The non-zero components of d seconds, hours first.
Components(d) ==
  Component(d \div 3600, "hour") \o Component((d \div 60) % 60, "minute")
    \o Component(d % 60, "second")

RECURSIVE JoinComma(_)
JoinComma(parts) ==
  IF Len(parts) = 0 THEN ""
  ELSE IF Len(parts) = 1 THEN parts[1]
  ELSE parts[1] \o ", " \o JoinComma(Tail(parts))

\* C18: for d >= 0 whole seconds formatDuration(d) is the non-zero components
\* among hours, minutes mod 60 and seconds mod 60, in that order, joined by
\* ", ", each with its count and its unit, singular when the count is 1; it is
\* never empty, and it is "0 seconds" exactly when d is zero.
C18_FormatDuration ==
  fmtDone =>
    /\ out # ""
    /\ (out = "0 seconds") <=> (dur = 0)
    /\ dur # 0 => out = JoinComma(Components(dur))

\* Hours and seconds without minutes; all three components, two of them singular.
C18_Witness ==
  /\ fmtDone /\ dur = 7261 /\ out = "2 hours, 1 minute, 1 second"
  /\ formatDuration(3605) = "1 hour, 5 seconds"
  /\ formatDuration(0) = "0 seconds"

====
